---------------------------- MODULE Spec2Model ----------------------------
(***************************************************************************)
(* preact-headmaster (src/src/index.ts): the effect body of useHeadmaster  *)
(* in browser mode (diff against the previous descriptor, DOM mutations,   *)
(* cleanup) and in server mode (merge into serverHeadmasterData), and      *)
(* renderServerHeadmaster.                                                 *)
(*                                                                         *)
(* JavaScript objects are sequences of <<key, value>> pairs with distinct  *)
(* keys, in key insertion order (the order Object.entries and the spread   *)
(* operator observe).  Object and array values carry a copy number: two    *)
(* values are the same reference iff they are equal as TLA+ values, so two *)
(* copies of one content are distinct references with identical content.   *)
(***************************************************************************)
EXTENDS Integers, Sequences, FiniteSets, TLC

\* Largest number of entries of a tag-kind sequence offered as input.
MaxLen == 2
\* Number of distinct references offered for one array / object content.
NumCopies == 2
\* Largest number of entries one effect run processes when the entries are
\* fed one at a time.
MaxSteps == 3

--------------------------------------------------------------------------
(* JavaScript values *)

Undefined == [t |-> "undef", s |-> "undefined", items |-> <<>>, props |-> <<>>, copy |-> 0]
Str(x) == [t |-> "str", s |-> x, items |-> <<>>, props |-> <<>>, copy |-> 0]
Bool(b) == [t |-> "bool", s |-> IF b THEN "true" ELSE "false", items |-> <<>>, props |-> <<>>, copy |-> 0]
\* an object literal with the given entries; c tells its references apart
ObjV(o, c) == [t |-> "obj", s |-> "[object Object]", items |-> <<>>, props |-> o, copy |-> c]
\* an array literal of objects; c tells its references apart
ArrV(a, c) == [t |-> "arr", s |-> "", items |-> a, props |-> <<>>, copy |-> c]

\* String(value) and `${value}`
StringOf(v) == v.s

\* truthiness of a value in a condition, and the operand `a || b` yields
Truthy(v) ==
    CASE v.t = "undef" -> FALSE
      [] v.t = "str" -> v.s # ""
      [] v.t = "bool" -> v.s = "true"
      [] OTHER -> TRUE

IsArray(v) == v.t = "arr"

\* typeof v === 'object' && v !== null
IsObject(v) == v.t \in {"obj", "arr"}

--------------------------------------------------------------------------
(* JavaScript objects: sequences of <<key, value>> pairs *)

Keys(o) == {o[j][1] : j \in 1..Len(o)}

Has(o, k) == k \in Keys(o)

KeyIndex(o, k) == CHOOSE j \in 1..Len(o) : o[j][1] = k

\* o[k]: the value of property k, undefined when o has no such property
Get(o, k) == IF Has(o, k) THEN o[KeyIndex(o, k)][2] ELSE Undefined

\* o[k] = v: an existing key keeps its position, a new key goes last
Put(o, k, v) ==
    IF Has(o, k)
    THEN [o EXCEPT ![KeyIndex(o, k)] = <<k, v>>]
    ELSE Append(o, <<k, v>>)

Without(o, k) == SelectSeq(o, LAMBDA p : p[1] # k)

RECURSIVE PutAll(_, _)
PutAll(o, src) ==
    IF src = <<>> THEN o
    ELSE PutAll(Put(o, Head(src)[1], Head(src)[2]), Tail(src))

\* mutant: the operands of the spread swapped, { ...b, ...a }
SpreadKeepFirst(a, b) == PutAll(b, a)

\* mutant: the aggregate is replaced by the descriptor
SpreadReplace(a, b) == b

\* { ...a, ...b }
Spread(a, b) == PutAll(a, b)

--------------------------------------------------------------------------
(* Program constants and state *)

VALID_TAG_NAMES == <<"base", "meta", "link", "style", "script", "noscript">>

\* the marker attribute of a Managed Element
Marker == "data-headmaster"

\* the component instances (one useHeadmaster call each)
Instances == {1, 2}

VARIABLES
    isServer,              \* typeof window === 'undefined'
    serverHeadmasterData,  \* the module-level aggregate
    title,                 \* document.title
    htmlAttrs,             \* attributes of document.documentElement
    bodyAttrs,             \* attributes of document.body
    head,                  \* children of document.head, in order (node ids)
    nodes,                 \* node id -> [tag, attrs] of every live element
    prevHeadmasterDataRef, \* instance -> prevHeadmasterDataRef.current
    elements,              \* instance -> the elements array of its last effect run
    cycle,                 \* instance -> "idle" | "applied" | "torn"
    returned,              \* what the operation just made returned to its caller
    last                   \* the last operation, its instance and its inputs, and
                           \* the DOM mutations it made, in the order it made them

vars == <<isServer, serverHeadmasterData, title, htmlAttrs, bodyAttrs, head, nodes,
          prevHeadmasterDataRef, elements, cycle, returned, last>>

docVars == <<title, htmlAttrs, bodyAttrs, head, nodes>>
instVars == <<prevHeadmasterDataRef, elements, cycle>>

--------------------------------------------------------------------------
(* DOM *)

Range(q) == {q[j] : j \in 1..Len(q)}

\* element.setAttribute(key, value) on an attribute list
SetAttribute(attrs, k, v) == Put(attrs, k, v)

\* element.removeAttribute(key)
RemoveAttribute(attrs, k) == Without(attrs, k)

\* the statically served <meta charset> of the page: never marker-tagged
StaticNode == [tag |-> "meta", attrs |-> <<<<"charset", "utf-8">>>>]

\* document.createElement: a node id no live reference holds
NewNodeId(used) ==
    CHOOSE n \in 1..(Cardinality(used) + 1) :
        n \notin used /\ \A m \in 1..(Cardinality(used) + 1) : m \notin used => n <= m

\* mutant: the lookup never finds an element
QuerySelectorNull(hd, nd, tagName) == 0

\* document.head.querySelector(`${tagName}[data-headmaster]`): the first
\* marker-tagged child of that tag name, in document order (0 stands for null)
QuerySelector(hd, nd, tagName) ==
    LET hits == {j \in 1..Len(hd) :
                    nd[hd[j]].tag = tagName /\ Has(nd[hd[j]].attrs, Marker)}
    IN IF hits = {} THEN 0
       ELSE hd[CHOOSE j \in hits : \A k \in hits : j <= k]

\* a call that returns no string (the effect body, the cleanup)
NoValue == [status |-> "none", s |-> ""]

\* parent.removeChild(element)
RemoveChild(hd, e) == SelectSeq(hd, LAMBDA x : x # e)

\* document.head.appendChild(element): an attached element moves to the end
AppendChild(hd, e) == Append(RemoveChild(hd, e), e)

--------------------------------------------------------------------------
(* createOrUpdateElement *)

\* mutant: no test for undefined, every value is set through String(value)
RECURSIVE SyncAttributesNoRemove(_, _)
SyncAttributesNoRemove(attrs, entries) ==
    IF entries = <<>> THEN attrs
    ELSE SyncAttributesNoRemove(
             SetAttribute(attrs, Head(entries)[1], StringOf(Head(entries)[2])),
             Tail(entries))

\* Object.entries(attributes).forEach: undefined removes, anything else is
\* set through String(value)
RECURSIVE SyncAttributes(_, _)
SyncAttributes(attrs, entries) ==
    IF entries = <<>> THEN attrs
    ELSE LET key == Head(entries)[1]
             value == Head(entries)[2]
         IN SyncAttributes(
                IF value = Undefined
                THEN RemoveAttribute(attrs, key)
                ELSE SetAttribute(attrs, key, StringOf(value)),
                Tail(entries))

\* the element createOrUpdateElement returns: its node id, whether it was
\* created by this call, and its tag and attributes after the call
\* (no caller passes innerHTML)
CreateOrUpdateElement(hd, nd, tagName, attributes) ==
    LET found == QuerySelector(hd, nd, tagName)
        id == IF found # 0 THEN found ELSE NewNodeId(DOMAIN nd)
        old == IF found # 0 THEN nd[found].attrs ELSE <<>>
    IN [id |-> id,
        created |-> found = 0,
        node |-> [tag |-> tagName,
                  attrs |-> SyncAttributes(SetAttribute(old, Marker, ""), attributes)]]

--------------------------------------------------------------------------
(* useHeadmaster, browser mode: the effect body *)

\* mutant: every field counts as changed
AlwaysChanged(cur, prv) == TRUE

\* mutant: fields are compared by content (deep equality)
ChangedByContent(cur, prv) == [cur EXCEPT !.copy = 0] # [prv EXCEPT !.copy = 0]

\* currentAttributes !== prevAttributes (and the same test on title,
\* htmlAttributes and bodyAttributes)
Changed(cur, prv) == cur # prv

\* mutant: an absent title leaves document.title alone
ApplyTitleNoClear(d, p, t) ==
    IF (Get(d, "title") # Get(p, "title")) /\ Truthy(Get(d, "title"))
    THEN Get(d, "title").s
    ELSE t

\* document.title after the title branch
ApplyTitle(d, p, t) ==
    IF Changed(Get(d, "title"), Get(p, "title"))
    THEN (IF Truthy(Get(d, "title")) THEN Get(d, "title").s ELSE "")
    ELSE t

RECURSIVE SetAll(_, _)
SetAll(attrs, entries) ==
    IF entries = <<>> THEN attrs
    ELSE SetAll(SetAttribute(attrs, Head(entries)[1], StringOf(Head(entries)[2])),
                Tail(entries))

\* mutant: a changed map replaces the element's attributes
ApplyAttributesReplace(field, d, p, attrs) ==
    IF Get(d, field) # Get(p, field)
    THEN SetAll(<<>>, IF Truthy(Get(d, field)) THEN Get(d, field).props ELSE <<>>)
    ELSE attrs

\* the attributes of the root (field "htmlAttributes") or the body
\* (field "bodyAttributes") after that field's branch
ApplyAttributes(field, d, p, attrs) ==
    IF Changed(Get(d, field), Get(p, field))
    THEN SetAll(attrs, IF Truthy(Get(d, field)) THEN Get(d, field).props ELSE <<>>)
    ELSE attrs

\* one entry: createOrUpdateElement, appendChild, elements.push
\* st = [head, nodes, els]
ApplyEntry(st, tagName, attributes) ==
    LET e == CreateOrUpdateElement(st.head, st.nodes, tagName, attributes)
    IN [head |-> AppendChild(st.head, e.id),
        nodes |-> (e.id :> e.node) @@ st.nodes,
        els |-> Append(st.els, e.id)]

RECURSIVE ApplyEntries(_, _, _)
ApplyEntries(st, tagName, entries) ==
    IF entries = <<>> THEN st
    ELSE ApplyEntries(ApplyEntry(st, tagName, Head(entries)), tagName, Tail(entries))

\* the body of VALID_TAG_NAMES.forEach for one tag name
ApplyTag(st, tagName, d, p) ==
    LET currentAttributes == Get(d, tagName)
        prevAttributes == Get(p, tagName)
    IN IF Changed(currentAttributes, prevAttributes)
       THEN IF IsArray(currentAttributes)
            THEN ApplyEntries(st, tagName, currentAttributes.items)
            ELSE IF IsObject(currentAttributes)
                 THEN ApplyEntry(st, tagName, currentAttributes.props)
                 ELSE st
       ELSE st

\* mutant: the tag kinds are visited from the last to the first
RECURSIVE ApplyTagsBackwards(_, _, _, _)
ApplyTagsBackwards(st, tagNames, d, p) ==
    IF tagNames = <<>> THEN st
    ELSE ApplyTag(ApplyTagsBackwards(st, Tail(tagNames), d, p), Head(tagNames), d, p)

RECURSIVE ApplyTags(_, _, _, _)
ApplyTags(st, tagNames, d, p) ==
    IF tagNames = <<>> THEN st
    ELSE ApplyTags(ApplyTag(st, Head(tagNames), d, p), Tail(tagNames), d, p)

\* the mutations of one effect run, in statement order: the title
\* assignment, one setAttribute per pair of htmlAttributes, one per pair of
\* bodyAttributes, then one createOrUpdateElement/appendChild per recorded
\* element (st is the result of the VALID_TAG_NAMES loop)
MutationLog(d, p, st) ==
    LET pairs(field) ==
            IF Changed(Get(d, field), Get(p, field)) /\ Truthy(Get(d, field))
            THEN [j \in 1..Len(Get(d, field).props) |-> field]
            ELSE <<>>
    IN (IF Changed(Get(d, "title"), Get(p, "title")) THEN <<"title">> ELSE <<>>)
       \o pairs("htmlAttributes")
       \o pairs("bodyAttributes")
       \o [j \in 1..Len(st.els) |-> st.nodes[st.els[j]].tag]

\* mutant: the cleanup stops after the first recorded element
RemoveFirstRecorded(hd, els) == IF els = <<>> THEN hd ELSE RemoveChild(hd, Head(els))

\* mutant: the cleanup removes nothing
RemoveNothing(hd, els) == hd

\* element.parentNode, as a condition: the element is a child of the head
HasParent(hd, e) == e \in Range(hd)

\* what calling removeChild on the parent of an element does: it detaches
\* an attached element, and throws a TypeError when parentNode is null
RemoveFromParent(st, e) ==
    IF HasParent(st.head, e)
    THEN [head |-> RemoveChild(st.head, e), threw |-> st.threw]
    ELSE [head |-> st.head, threw |-> TRUE]

\* mutant: no parentNode test before removeChild
CleanupStepUnguarded(st, e) == RemoveFromParent(st, e)

\* the body of the cleanup's forEach for one recorded element
\* st = [head, threw]
CleanupStep(st, e) == IF HasParent(st.head, e) THEN RemoveFromParent(st, e) ELSE st

\* the cleanup function, element by element; an exception ends it
RECURSIVE Cleanup(_, _)
Cleanup(st, els) ==
    IF els = <<>> \/ st.threw THEN st
    ELSE Cleanup(CleanupStep(st, Head(els)), Tail(els))

\* the head after the cleanup function ran on the recorded elements
RemoveRecorded(hd, els) == Cleanup([head |-> hd, threw |-> FALSE], els).head

\* what the cleanup function gives its caller: nothing, or the exception
CleanupReturn(hd, els) ==
    IF Cleanup([head |-> hd, threw |-> FALSE], els).threw
    THEN [status |-> "error", s |-> "TypeError"]
    ELSE NoValue

\* the nodes some reference still holds: children of the head and the
\* elements arrays of the instances
Live(hd, els) == Range(hd) \cup UNION {Range(els[i]) : i \in Instances}

Collect(nd, hd, els) == [n \in Live(hd, els) |-> nd[n]]

\* The effect of instance i runs with headmasterData = d.  Preact runs the
\* cleanup of the previous run before it runs the effect again.
Apply(i, d) ==
    /\ ~isServer
    /\ cycle[i] # "applied"
    /\ LET p == prevHeadmasterDataRef[i]
           st == ApplyTags([head |-> head, nodes |-> nodes, els |-> <<>>],
                           VALID_TAG_NAMES, d, p)
           els == [elements EXCEPT ![i] = st.els]
       IN /\ title' = ApplyTitle(d, p, title)
          /\ htmlAttrs' = ApplyAttributes("htmlAttributes", d, p, htmlAttrs)
          /\ bodyAttrs' = ApplyAttributes("bodyAttributes", d, p, bodyAttrs)
          /\ head' = st.head
          /\ elements' = els
          /\ nodes' = Collect(st.nodes, st.head, els)
          /\ prevHeadmasterDataRef' = [prevHeadmasterDataRef EXCEPT ![i] = d]
          /\ cycle' = [cycle EXCEPT ![i] = "applied"]
          /\ last' = [op |-> "apply", inst |-> i, before |-> p, arg |-> d,
                       muts |-> MutationLog(d, p, st)]
    /\ returned' = NoValue
    /\ UNCHANGED <<isServer, serverHeadmasterData>>

\* One iteration of the entry loop of instance i's running effect, for an
\* attribute set of tag kind tagName: createOrUpdateElement, appendChild,
\* elements.push.  The elements array is that of the running effect (a new
\* one when the last run has been cleaned up).
EntryStep(i, tagName, attributes) ==
    /\ ~isServer
    /\ LET els == IF cycle[i] = "applied" THEN elements[i] ELSE <<>>
           st == ApplyEntry([head |-> head, nodes |-> nodes, els |-> els],
                            tagName, attributes)
           all == [elements EXCEPT ![i] = st.els]
       IN /\ Len(els) < MaxSteps
          /\ head' = st.head
          /\ elements' = all
          /\ nodes' = Collect(st.nodes, st.head, all)
          /\ cycle' = [cycle EXCEPT ![i] = "applied"]
          /\ last' = [op |-> "entry", inst |-> i, before |-> <<>>,
                       arg |-> <<<<tagName, ObjV(attributes, 0)>>>>, muts |-> <<tagName>>]
    /\ returned' = NoValue
    /\ UNCHANGED <<isServer, serverHeadmasterData, title, htmlAttrs, bodyAttrs,
                   prevHeadmasterDataRef>>

\* mutant: the cleanup also reverts the title, the root and body attributes
\* and forgets the previous descriptor
TeardownRevertsAll(i) ==
    /\ ~isServer
    /\ cycle[i] = "applied"
    /\ head' = RemoveRecorded(head, elements[i])
    /\ nodes' = Collect(nodes, head', elements)
    /\ cycle' = [cycle EXCEPT ![i] = "torn"]
    /\ last' = [op |-> "teardown", inst |-> i, before |-> <<>>, arg |-> <<>>, muts |-> <<>>]
    /\ returned' = CleanupReturn(head, elements[i])
    /\ title' = ""
    /\ htmlAttrs' = <<>>
    /\ bodyAttrs' = <<>>
    /\ prevHeadmasterDataRef' = [prevHeadmasterDataRef EXCEPT ![i] = <<>>]
    /\ UNCHANGED <<isServer, serverHeadmasterData, elements>>

\* The cleanup of instance i's last effect run (before the next run, or at
\* unmount).
Teardown(i) ==
    /\ ~isServer
    /\ cycle[i] = "applied"
    /\ head' = RemoveRecorded(head, elements[i])
    /\ nodes' = Collect(nodes, head', elements)
    /\ cycle' = [cycle EXCEPT ![i] = "torn"]
    /\ last' = [op |-> "teardown", inst |-> i, before |-> <<>>, arg |-> <<>>, muts |-> <<>>]
    /\ returned' = CleanupReturn(head, elements[i])
    /\ UNCHANGED <<isServer, serverHeadmasterData, title, htmlAttrs, bodyAttrs,
                   prevHeadmasterDataRef, elements>>

\* The cleanup function of instance i's last effect run is called once more
\* (the closure and its elements array are those of the first call).
TeardownAgain(i) ==
    /\ ~isServer
    /\ cycle[i] = "torn"
    /\ head' = RemoveRecorded(head, elements[i])
    /\ nodes' = Collect(nodes, head', elements)
    /\ last' = [op |-> "teardown-again", inst |-> i, before |-> <<>>, arg |-> <<>>, muts |-> <<>>]
    /\ returned' = CleanupReturn(head, elements[i])
    /\ UNCHANGED <<isServer, serverHeadmasterData, title, htmlAttrs, bodyAttrs,
                   prevHeadmasterDataRef, elements, cycle>>

--------------------------------------------------------------------------
(* useHeadmaster, server mode, and renderServerHeadmaster *)

\* The effect runs on the server for caller r (a component of one server
\* request): the descriptor is spread over the one aggregate of the process.
MergeBy(r, d) ==
    /\ isServer
    /\ serverHeadmasterData' = Spread(serverHeadmasterData, d)
    /\ last' = [op |-> "merge", inst |-> r, before |-> serverHeadmasterData, arg |-> d, muts |-> <<>>]
    /\ returned' = NoValue
    /\ UNCHANGED <<isServer, docVars, instVars>>

\* The effect runs on the server (one server pass, no caller told apart).
Merge(d) == MergeBy(0, d)

\* Object.entries(attrs).map(([key, value]) => `${key}="${value}"`).join(' ')
RECURSIVE RenderAttributes(_)
RenderAttributes(entries) ==
    IF entries = <<>> THEN ""
    ELSE LET pair == Head(entries)[1] \o "=\"" \o StringOf(Head(entries)[2]) \o "\""
         IN IF Tail(entries) = <<>> THEN pair
            ELSE pair \o " " \o RenderAttributes(Tail(entries))

\* `<${tagName} ${...} />`
RenderElement(tagName, attrs) == "<" \o tagName \o " " \o RenderAttributes(attrs) \o " />"

RECURSIVE RenderElements(_, _)
RenderElements(tagName, items) ==
    IF items = <<>> THEN ""
    ELSE RenderElement(tagName, Head(items)) \o RenderElements(tagName, Tail(items))

\* what one tag name adds to headmasterString
RenderTag(data, tagName) ==
    LET attributes == Get(data, tagName)
    IN IF IsArray(attributes) THEN RenderElements(tagName, attributes.items)
       ELSE IF IsObject(attributes) THEN RenderElement(tagName, attributes.props)
       ELSE ""

RECURSIVE RenderTags(_, _)
RenderTags(data, tagNames) ==
    IF tagNames = <<>> THEN ""
    ELSE RenderTag(data, Head(tagNames)) \o RenderTags(data, Tail(tagNames))

\* the title block of headmasterString
RenderTitle(data) ==
    IF Truthy(Get(data, "title"))
    THEN "<title>" \o StringOf(Get(data, "title")) \o "</title>"
    ELSE ""

\* mutant: the tag kinds visited in the key order of the aggregate
RenderOrderOfKeys(data) ==
    LET ks == [j \in 1..Len(data) |-> data[j][1]]
    IN SelectSeq(ks, LAMBDA k : k \in {"base", "meta", "link", "style", "script", "noscript"})

\* the order in which renderServerHeadmaster visits the tag kinds
RenderOrder(data) == VALID_TAG_NAMES

\* the string renderServerHeadmaster returns on the server
RenderString(data) == RenderTitle(data) \o RenderTags(data, RenderOrder(data))

NotServerError == "renderServerHeadmaster should only be called on the server side"

\* mutant: rendering starts a new pass by emptying the aggregate
RenderAndReset ==
    /\ isServer
    /\ returned' = [status |-> "string", s |-> RenderString(serverHeadmasterData)]
    /\ serverHeadmasterData' = <<>>
    /\ last' = [op |-> "render", inst |-> 0, before |-> serverHeadmasterData, arg |-> <<>>, muts |-> <<>>]
    /\ UNCHANGED <<isServer, docVars, instVars>>

\* renderServerHeadmaster on the server, called by r
RenderBy(r) ==
    /\ isServer
    /\ returned' = [status |-> "string", s |-> RenderString(serverHeadmasterData)]
    /\ last' = [op |-> "render", inst |-> r, before |-> serverHeadmasterData, arg |-> <<>>, muts |-> <<>>]
    /\ UNCHANGED <<isServer, serverHeadmasterData, docVars, instVars>>

\* renderServerHeadmaster on the server
Render == RenderBy(0)

\* mutant: no environment check, the browser call returns a string
RenderWithoutGuard ==
    /\ ~isServer
    /\ returned' = [status |-> "string", s |-> RenderString(serverHeadmasterData)]
    /\ last' = [op |-> "render", inst |-> 0, before |-> <<>>, arg |-> <<>>, muts |-> <<>>]
    /\ UNCHANGED <<isServer, serverHeadmasterData, docVars, instVars>>

\* renderServerHeadmaster in the browser: it throws before reading anything
RenderThrows ==
    /\ ~isServer
    /\ returned' = [status |-> "error", s |-> NotServerError]
    /\ last' = [op |-> "render", inst |-> 0, before |-> <<>>, arg |-> <<>>, muts |-> <<>>]
    /\ UNCHANGED <<isServer, serverHeadmasterData, docVars, instVars>>

--------------------------------------------------------------------------
(* Inputs: the descriptors the host hands to useHeadmaster *)

\* an object literal: the listed properties, those given as undefined left out
Literal(pairs) == SelectSeq(pairs, LAMBDA p : p[2] # Undefined)

AttrNames == <<"d", "k", "z", "w">>

FirstKey(tagName) ==
    CASE tagName = "meta" -> "name"
      [] tagName = "link" -> "rel"
      [] tagName = "style" -> "type"
      [] tagName = "script" -> "src"
      [] tagName = "noscript" -> "id"
      [] OTHER -> "href"

SecondKey(tagName) ==
    CASE tagName = "meta" -> "content"
      [] tagName = "link" -> "href"
      [] tagName = "style" -> "media"
      [] tagName = "script" -> "defer"
      [] tagName = "noscript" -> "class"
      [] OTHER -> "target"

\* the j-th attribute set offered for a tag kind: the odd ones give the
\* second attribute a value (a boolean for script), the even ones give it
\* as undefined
EntryOf(tagName, j) ==
    <<<<FirstKey(tagName), Str(AttrNames[((j - 1) % Len(AttrNames)) + 1])>>,
      <<SecondKey(tagName),
        IF j % 2 = 1
        THEN (IF tagName = "script" THEN Bool(TRUE) ELSE Str("c"))
        ELSE Undefined>>>>

\* reference c of the array of the first n attribute sets of a tag kind
ArrayOf(tagName, n, c) == ArrV([j \in 1..n |-> EntryOf(tagName, j)], c)

BaseObject(c) == ObjV(EntryOf("base", 1), c)

HtmlChoices ==
    {Undefined}
    \cup {ObjV(<<<<"lang", Str("en")>>>>, c) : c \in 1..NumCopies}
    \cup {ObjV(<<<<"lang", Str("fr")>>, <<"dir", Str("ltr")>>>>, 1)}

BodyChoices == {Undefined, ObjV(<<<<"class", Str("a")>>>>, 1)}

\* descriptors that declare title, htmlAttributes and bodyAttributes
AttrDescs ==
    {Literal(<<<<"title", t>>, <<"htmlAttributes", h>>, <<"bodyAttributes", b>>>>) :
        t \in {Undefined, Str("T"), Str("U")}, h \in HtmlChoices, b \in BodyChoices}

SequenceKinds == {"meta", "link", "style", "script", "noscript"}

TagChoices ==
    {<<<<"link", ArrayOf("link", n, c)>>>> : n \in 0..MaxLen, c \in 1..NumCopies}
    \cup {<<<<k, ArrayOf(k, MaxLen, 1)>>>> : k \in SequenceKinds \ {"link"}}
    \cup {<<<<"base", BaseObject(1)>>>>}
    \cup {<<<<"meta", ArrayOf("meta", MaxLen, 1)>>, <<"link", ArrayOf("link", 1, 1)>>>>}
    \cup {<<<<"noscript", ArrayOf("noscript", 1, 1)>>, <<"script", ArrayOf("script", 1, 1)>>,
            <<"style", ArrayOf("style", 1, 1)>>, <<"link", ArrayOf("link", 1, 1)>>,
            <<"meta", ArrayOf("meta", 1, 1)>>, <<"base", BaseObject(1)>>>>}

\* descriptors that declare tag kinds, with or without a title
TagDescs ==
    {Literal(<<<<"title", t>>>>) \o tags : t \in {Undefined, Str("T")}, tags \in TagChoices}

BrowserDescs == AttrDescs \cup TagDescs

\* descriptors of a server pass, with their own key orders
ServerDescs ==
    {<<>>,
     <<<<"title", Str("T")>>, <<"meta", ArrayOf("meta", 1, 1)>>>>,
     <<<<"meta", ArrayOf("meta", MaxLen, 1)>>, <<"title", Str("U")>>>>,
     <<<<"meta", ArrayOf("meta", 0, 1)>>>>,
     <<<<"title", Str("")>>>>,
     <<<<"title", Undefined>>, <<"link", Undefined>>>>,
     <<<<"noscript", ArrayOf("noscript", 1, 1)>>, <<"script", ArrayOf("script", 1, 1)>>,
       <<"style", ArrayOf("style", 1, 1)>>, <<"base", BaseObject(1)>>,
       <<"htmlAttributes", ObjV(<<<<"lang", Str("en")>>>>, 1)>>>>}
    \cup {<<<<"link", ArrayOf("link", n, 1)>>>> : n \in 1..MaxLen}

--------------------------------------------------------------------------
(* Specification *)

NoOp == [op |-> "init", inst |-> 0, before |-> <<>>, arg |-> <<>>, muts |-> <<>>]

Init ==
    /\ isServer \in BOOLEAN
    /\ serverHeadmasterData = <<>>
    /\ title = "Home"
    /\ htmlAttrs = <<>>
    /\ bodyAttrs = <<>>
    /\ head = <<1>>
    /\ nodes = (1 :> StaticNode)
    /\ prevHeadmasterDataRef = [i \in Instances |-> <<>>]
    /\ elements = [i \in Instances |-> <<>>]
    /\ cycle = [i \in Instances |-> "idle"]
    /\ returned = NoValue
    /\ last = NoOp

\* one mounted component
Next ==
    \/ \E d \in BrowserDescs : Apply(1, d)
    \/ Teardown(1)
    \/ \E d \in ServerDescs : Merge(d)
    \/ Render
    \/ RenderThrows

Spec == Init /\ [][Next]_vars

\* Two server requests served by one process: their components' effects
\* and their render calls interleave, each call running to completion.
Requests == {1, 2}

\* what the components of a request declare
RequestDescs(r) ==
    IF r = 1
    THEN {<<<<"title", Str("T")>>, <<"meta", ArrayOf("meta", 1, 1)>>>>,
          <<<<"meta", ArrayOf("meta", MaxLen, 1)>>>>,
          <<<<"base", BaseObject(1)>>>>}
    ELSE {<<<<"title", Str("U")>>>>, <<<<"meta", ArrayOf("meta", 0, 1)>>>>}
         \cup {<<<<"link", ArrayOf("link", n, 1)>>>> : n \in 1..MaxLen}

InitRace == Init /\ isServer

NextRace ==
    \E r \in Requests :
        \/ \E d \in RequestDescs(r) : MergeBy(r, d)
        \/ RenderBy(r)

SpecRace == InitRace /\ [][NextRace]_vars

\* The attribute sets fed one at a time to createOrUpdateElement: string,
\* boolean and undefined values, under keys that overlap and keys that do not.
SyncEntries ==
    {<<>>,
     <<<<"name", Str("a")>>>>,
     <<<<"name", Str("b")>>, <<"content", Str("c")>>>>,
     <<<<"content", Undefined>>, <<"defer", Bool(TRUE)>>>>,
     <<<<"name", Undefined>>, <<"property", Str("p")>>>>,
     <<<<"defer", Bool(FALSE)>>, <<"async", Undefined>>>>}

InitEntry == Init /\ ~isServer

NextEntry ==
    \/ \E tagName \in {"meta", "script"}, attributes \in SyncEntries :
           EntryStep(1, tagName, attributes)
    \/ Teardown(1)

SpecEntry == InitEntry /\ [][NextEntry]_vars

\* Two mounted components on one document.
MultiDescs ==
    {<<>>,
     <<<<"meta", ArrayOf("meta", 1, 1)>>>>,
     <<<<"meta", ArrayOf("meta", MaxLen, 1)>>>>,
     <<<<"title", Str("T")>>, <<"link", ArrayOf("link", 1, 1)>>>>}

InitMulti == Init /\ ~isServer

NextMulti ==
    \E i \in Instances :
        \/ \E d \in MultiDescs : Apply(i, d)
        \/ Teardown(i)
        \/ TeardownAgain(i)

SpecMulti == InitMulti /\ [][NextMulti]_vars

--------------------------------------------------------------------------
(* Properties *)

TagKinds == Range(VALID_TAG_NAMES)

IsManaged(nd, e) == Has(nd[e].attrs, Marker)

\* the marker-tagged children of the head
ManagedIn(hd, nd) == {e \in Range(hd) : IsManaged(nd, e)}

\* the children of the head with tag name k, in document order, with their
\* attributes
TagView(hd, nd, k) ==
    LET ids == SelectSeq(hd, LAMBDA e : nd[e].tag = k)
    IN [j \in 1..Len(ids) |-> <<ids[j], nd[ids[j]].attrs>>]

\* the children of the head, in document order, with tag and attributes
HeadView(hd, nd) == [j \in 1..Len(hd) |-> <<hd[j], nd[hd[j]]>>]

\* the marker-tagged children of the head with tag name k, in document order
ManagedOfTag(hd, nd, k) ==
    SelectSeq(hd, LAMBDA e : nd[e].tag = k /\ IsManaged(nd, e))

\* an element carries every attribute an attribute set gives a value
Carries(attrs, entry) ==
    \A j \in 1..Len(entry) :
        entry[j][2] # Undefined =>
            /\ Has(attrs, entry[j][1])
            /\ Get(attrs, entry[j][1]) = StringOf(entry[j][2])

\* C1: in a teardown step of the instance, every element its last apply
\* recorded is detached from the head, and every other child of the head
\* stays, in its place and with its attributes.
C1_TeardownRemovesExactlyRecorded ==
    [][last'.op = "teardown" =>
         LET recorded == Range(elements[last'.inst])
         IN /\ \A e \in recorded : e \notin Range(head')
            /\ \A e \in Range(head) \ recorded : e \in Range(head')
            /\ \A e \in Range(head') : e \in Range(head) /\ nodes'[e] = nodes[e]
            /\ Len(head') = Cardinality(Range(head) \ recorded)]_vars

\* C1 witness: a teardown that detached two distinct recorded elements and
\* left the static element of the page attached.
C1_Witness ==
    /\ last.op = "teardown"
    /\ Cardinality(Range(elements[1])) >= 2
    /\ head = <<1>>
    /\ ~IsManaged(nodes, 1)

\* C2: after a browser apply in which a sequence field changed and holds n
\* entries, the head holds n marker-tagged elements of that tag name, the
\* j-th carrying the attributes of the j-th entry.
C2_OneElementPerEntry ==
    \A k \in SequenceKinds :
        (/\ last.op = "apply"
         /\ Get(last.arg, k) # Get(last.before, k)
         /\ IsArray(Get(last.arg, k)))
        => LET entries == Get(last.arg, k).items
               found == ManagedOfTag(head, nodes, k)
           IN /\ Len(found) = Len(entries)
              /\ \A j \in 1..Len(entries) : Carries(nodes[found[j]].attrs, entries[j])

\* C3: after an apply whose title differs from the previous descriptor's,
\* document.title is the new title, or "" when the new descriptor has none.
C3_TitleReconciled ==
    (last.op = "apply" /\ Get(last.arg, "title") # Get(last.before, "title"))
    => title = (IF Has(last.arg, "title") /\ Get(last.arg, "title").t = "str"
                THEN Get(last.arg, "title").s
                ELSE "")

\* C3 witness: an apply without a title after one that declared a title has
\* cleared document.title.
C3_Witness ==
    /\ last.op = "apply"
    /\ Get(last.before, "title") = Str("T")
    /\ ~Has(last.arg, "title")
    /\ title = ""

\* C4: in an apply step, a field whose value is the same reference as in
\* the previous descriptor causes no DOM mutation: same title => title
\* unchanged, same attribute map => root/body attributes unchanged, same
\* tag-kind value => the head's elements of that tag name, their order and
\* attributes are unchanged and none is recorded; with all fields the same
\* the whole document is unchanged and nothing is recorded.
C4_SameReferenceNoMutation ==
    [][last'.op = "apply" =>
         LET i == last'.inst
             p == prevHeadmasterDataRef[i]
             d == prevHeadmasterDataRef'[i]
         IN /\ Get(d, "title") = Get(p, "title") => title' = title
            /\ Get(d, "htmlAttributes") = Get(p, "htmlAttributes") => htmlAttrs' = htmlAttrs
            /\ Get(d, "bodyAttributes") = Get(p, "bodyAttributes") => bodyAttrs' = bodyAttrs
            /\ \A k \in TagKinds :
                   Get(d, k) = Get(p, k) =>
                       /\ TagView(head', nodes', k) = TagView(head, nodes, k)
                       /\ \A e \in Range(elements'[i]) : nodes'[e].tag # k
            /\ (\A f \in TagKinds \cup {"title", "htmlAttributes", "bodyAttributes"} :
                    Get(d, f) = Get(p, f)) =>
                   /\ title' = title /\ htmlAttrs' = htmlAttrs /\ bodyAttrs' = bodyAttrs
                   /\ HeadView(head', nodes') = HeadView(head, nodes)
                   /\ elements'[i] = <<>>]_vars

\* C4 witness: the same descriptor, declaring a non-empty link array, was
\* applied again after teardown; the head holds no marker-tagged element.
C4_Witness ==
    /\ last.op = "apply"
    /\ last.arg = last.before
    /\ IsArray(Get(last.arg, "link"))
    /\ Len(Get(last.arg, "link").items) >= 1
    /\ ManagedIn(head, nodes) = {}

\* the link array of d is a different reference than that of p and has one
\* entry fewer
LinkShrinks(p, d) ==
    /\ IsArray(Get(p, "link")) /\ IsArray(Get(d, "link"))
    /\ Get(d, "link") # Get(p, "link")
    /\ Len(Get(d, "link").items) = Len(Get(p, "link").items) - 1

\* C5: in an apply step (the teardown of the previous cycle done) whose
\* link array is a fresh reference with one entry fewer, the marker-tagged
\* elements attached to the head are exactly the elements this apply
\* recorded, and no element the previous apply recorded is attached.
C5_ShrinkLeavesOnlySecondCall ==
    [][(last'.op = "apply" /\ LinkShrinks(last'.before, last'.arg)) =>
         LET i == last'.inst
         IN /\ ManagedIn(head', nodes') = Range(elements'[i])
            /\ Range(elements[i]) \cap Range(head') = {}]_vars

\* C5 witness: a link array of two entries was followed by a fresh one of
\* one entry, whose element is attached.
C5_Witness ==
    /\ last.op = "apply"
    /\ LinkShrinks(last.before, last.arg)
    /\ Len(Get(last.arg, "link").items) = 1
    /\ elements[1] # <<>>
    /\ ManagedIn(head, nodes) = Range(elements[1])


\* C6: after a merge whose descriptor and whose aggregate both hold an
\* array for a sequence kind, the aggregate holds the descriptor's array for
\* that kind: its entries, in its order, none of the earlier ones.
C6_MergeReplacesSequences ==
    \A k \in SequenceKinds :
        (/\ last.op = "merge"
         /\ IsArray(Get(last.before, k))
         /\ IsArray(Get(last.arg, k)))
        => /\ Get(serverHeadmasterData, k).items = Get(last.arg, k).items
           /\ Get(serverHeadmasterData, k) = Get(last.arg, k)

\* C6 witness: a meta array of two entries or more was merged over by a
\* shorter one, and a link array by a different one.
C6_Witness ==
    /\ last.op = "merge"
    /\ IsArray(Get(last.before, "meta")) /\ IsArray(Get(last.arg, "meta"))
    /\ Len(Get(last.before, "meta").items) >= 2
    /\ Len(Get(last.arg, "meta").items) < Len(Get(last.before, "meta").items)
    /\ IsArray(Get(last.before, "link"))
    /\ Len(Get(serverHeadmasterData, "meta").items) = Len(Get(last.arg, "meta").items)

\* key="value" pairs of an attribute set from position j on, space separated
RECURSIVE PairsFrom(_, _)
PairsFrom(entry, j) ==
    IF j > Len(entry) THEN ""
    ELSE entry[j][1] \o "=\"" \o StringOf(entry[j][2]) \o "\""
         \o (IF j < Len(entry) THEN " " ELSE "") \o PairsFrom(entry, j + 1)

\* the elements of the first n entries of a sequence, in sequence order
RECURSIVE ElementsUpTo(_, _, _)
ElementsUpTo(k, items, n) ==
    IF n = 0 THEN ""
    ELSE ElementsUpTo(k, items, n - 1) \o "<" \o k \o " " \o PairsFrom(items[n], 1) \o " />"

\* what the aggregate's value of kind k contributes
KindBlock(data, k) ==
    LET v == Get(data, k)
    IN CASE v.t = "arr" -> ElementsUpTo(k, v.items, Len(v.items))
         [] v.t = "obj" -> "<" \o k \o " " \o PairsFrom(v.props, 1) \o " />"
         [] OTHER -> ""

TitleBlock(data) ==
    LET v == Get(data, "title")
    IN IF v.t = "str" /\ v.s # "" THEN "<title>" \o v.s \o "</title>" ELSE ""

\* the aggregate {title: "T", meta: [{name: "d", content: "c"}]}, its two
\* fields merged in either order
IsExampleAggregate(data) ==
    /\ Keys(data) = {"title", "meta"}
    /\ Get(data, "title") = Str("T")
    /\ IsArray(Get(data, "meta"))
    /\ Get(data, "meta").items = <<<<<<"name", Str("d")>>, <<"content", Str("c")>>>>>>

\* C7: the string render returns on the server is the title block (present
\* iff the title is a non-empty string) followed by the blocks of base,
\* meta, link, style, script, noscript in that order, whatever the key order
\* of the aggregate; the example aggregate renders as the example string.
C7_RenderShape ==
    (last.op = "render" /\ isServer)
    => /\ returned.status = "string"
       /\ returned.s = TitleBlock(serverHeadmasterData)
                       \o KindBlock(serverHeadmasterData, "base")
                       \o KindBlock(serverHeadmasterData, "meta")
                       \o KindBlock(serverHeadmasterData, "link")
                       \o KindBlock(serverHeadmasterData, "style")
                       \o KindBlock(serverHeadmasterData, "script")
                       \o KindBlock(serverHeadmasterData, "noscript")
       /\ IsExampleAggregate(serverHeadmasterData)
          => returned.s = "<title>T</title><meta name=\"d\" content=\"c\" />"

\* C7 witness: an aggregate whose keys were merged in the order link,
\* noscript, script, style, base, ..., title, meta was rendered: title
\* first, then base, meta, link, style, script, noscript.
C7_Witness ==
    /\ last.op = "render" /\ isServer
    /\ Len(serverHeadmasterData) >= 7
    /\ serverHeadmasterData[1][1] = "link"
    /\ serverHeadmasterData[2][1] = "noscript"
    /\ serverHeadmasterData[Len(serverHeadmasterData)][1] = "meta"
    /\ returned.s = "<title>T</title><base href=\"d\" target=\"c\" />"
                    \o "<meta name=\"d\" content=\"c\" />"
                    \o "<link rel=\"d\" href=\"c\" />"
                    \o "<style type=\"d\" media=\"c\" />"
                    \o "<script src=\"d\" defer=\"true\" />"
                    \o "<noscript id=\"d\" class=\"c\" />"

\* C7 witness of the example: the example aggregate was rendered.
C7_ExampleWitness ==
    /\ last.op = "render" /\ isServer
    /\ IsExampleAggregate(serverHeadmasterData)
    /\ serverHeadmasterData[1][1] = "meta"

\* C8: a render call in the browser fails with the documented error,
\* returns no string and changes neither the aggregate nor the document
\* nor any instance.
C8_RenderInBrowserFails ==
    [][(last'.op = "render" /\ ~isServer) =>
         /\ returned'.status = "error"
         /\ returned'.s = "renderServerHeadmaster should only be called on the server side"
         /\ serverHeadmasterData' = serverHeadmasterData
         /\ docVars' = docVars
         /\ instVars' = instVars]_vars

\* C8 witness: render failed in a browser whose head holds a Managed Element.
C8_Witness ==
    /\ ~isServer
    /\ last.op = "render"
    /\ returned.status = "error"
    /\ ManagedIn(head, nodes) # {}
    /\ title = "T"

\* C9: a render step on the server leaves the aggregate unchanged; a render
\* that follows a render returns the same string; a merge that follows a
\* render keeps every field of the aggregate, those its descriptor does not
\* name with their values.
C9_RenderReadOnly ==
    [][/\ (last'.op = "render" /\ isServer) =>
              /\ serverHeadmasterData' = serverHeadmasterData
              /\ last.op = "render" => returned' = returned
       /\ (last'.op = "merge" /\ last.op = "render") =>
              /\ Keys(serverHeadmasterData) \subseteq Keys(serverHeadmasterData')
              /\ \A k \in Keys(serverHeadmasterData) \ Keys(last'.arg) :
                     Get(serverHeadmasterData', k) = Get(serverHeadmasterData, k)]_vars

\* C9 witness: a render of an aggregate holding a title, two meta entries
\* and a link left it as it was.
C9_Witness ==
    /\ last.op = "render" /\ isServer
    /\ last.before = serverHeadmasterData
    /\ Get(serverHeadmasterData, "title") = Str("U")
    /\ Len(Get(serverHeadmasterData, "meta").items) >= 2
    /\ IsArray(Get(serverHeadmasterData, "link"))
    /\ returned.status = "string" /\ returned.s # ""

\* the string of attribute k of an attribute list that has it
AttrValue(attrs, k) == attrs[KeyIndex(attrs, k)][2]

\* an attribute list holds every pair of a map, and every attribute it had
\* under another name is what it was
MergedInto(after, before, map) ==
    /\ \A j \in 1..Len(map) :
           Has(after, map[j][1]) /\ AttrValue(after, map[j][1]) = StringOf(map[j][2])
    /\ \A k \in Keys(before) \ Keys(map) :
           Has(after, k) /\ AttrValue(after, k) = AttrValue(before, k)

\* the pairs of an attribute-map field of a descriptor
MapOf(d, field) == IF IsObject(Get(d, field)) THEN Get(d, field).props ELSE <<>>

\* C10: no step removes an attribute name from the root or the body; an
\* apply step whose htmlAttributes (bodyAttributes) changed sets every pair
\* of the new map on the root (body), and an attribute the new map does not
\* name keeps its value.
C10_MonotonicAttributes ==
    [][/\ Keys(htmlAttrs) \subseteq Keys(htmlAttrs')
       /\ Keys(bodyAttrs) \subseteq Keys(bodyAttrs')
       /\ last'.op = "apply" =>
              LET p == last'.before
                  d == last'.arg
              IN /\ Get(d, "htmlAttributes") # Get(p, "htmlAttributes") =>
                        MergedInto(htmlAttrs', htmlAttrs, MapOf(d, "htmlAttributes"))
                 /\ Get(d, "bodyAttributes") # Get(p, "bodyAttributes") =>
                        MergedInto(bodyAttrs', bodyAttrs, MapOf(d, "bodyAttributes"))]_vars

\* C10 witness: the map {lang: fr, dir: ltr} was followed by {lang: en}:
\* dir is still on the root, lang is en; the body map was dropped and class
\* is still on the body.
C10_Witness ==
    /\ last.op = "apply"
    /\ Has(MapOf(last.before, "htmlAttributes"), "dir")
    /\ Keys(MapOf(last.arg, "htmlAttributes")) = {"lang"}
    /\ Has(last.before, "bodyAttributes") /\ ~Has(last.arg, "bodyAttributes")
    /\ htmlAttrs = <<<<"lang", "en">>, <<"dir", "ltr">>>>
    /\ bodyAttrs = <<<<"class", "a">>>>


\* the place of a mutation in the fixed order of one update cycle
OrderRank(m) ==
    CASE m = "title" -> 1
      [] m = "htmlAttributes" -> 2
      [] m = "bodyAttributes" -> 3
      [] m = "base" -> 4
      [] m = "meta" -> 5
      [] m = "link" -> 6
      [] m = "style" -> 7
      [] m = "script" -> 8
      [] m = "noscript" -> 9

\* C11: the mutations of an apply occur in the order title, root
\* attributes, body attributes, base, meta, link, style, script, noscript;
\* the elements it recorded are recorded in kind order and lie in the head
\* in kind order.
C11_FixedMutationOrder ==
    last.op = "apply" =>
        LET i == last.inst
            els == elements[i]
            mine == SelectSeq(head, LAMBDA e : e \in Range(els))
        IN /\ \A a, b \in 1..Len(last.muts) :
                  a < b => OrderRank(last.muts[a]) <= OrderRank(last.muts[b])
           /\ \A a, b \in 1..Len(els) :
                  a < b => OrderRank(nodes[els[a]].tag) <= OrderRank(nodes[els[b]].tag)
           /\ \A a, b \in 1..Len(mine) :
                  a < b => OrderRank(nodes[mine[a]].tag) < OrderRank(nodes[mine[b]].tag)

\* C11 witness: a descriptor whose keys are noscript, script, style, link,
\* meta, base, after a title, was applied: the title was set first and the
\* six elements lie in the head in kind order.
C11_Witness ==
    /\ last.op = "apply"
    /\ last.muts = <<"title", "base", "meta", "link", "style", "script", "noscript">>
    /\ [j \in 1..Len(head) |-> nodes[head[j]].tag]
           = <<"meta", "base", "meta", "link", "style", "script", "noscript">>
    /\ last.arg[2][1] = "noscript"


\* some descriptor of request r declares field k with value v
Declares(r, k, v) == \E d \in RequestDescs(r) : Has(d, k) /\ Get(d, k) = v

\* C12: with two requests on one process, a merge by either request
\* overwrites the fields of the one aggregate whatever the other request
\* put there, and the string a request's render returns is the rendering of
\* the whole aggregate, the fields the other request merged included; so a
\* request's output is not confined to what it declared (see the witness).
C12_RequestsShareAggregate ==
    /\ last.op = "merge" =>
           \A k \in Keys(last.arg) : Get(serverHeadmasterData, k) = Get(last.arg, k)
    /\ last.op = "render" =>
           /\ serverHeadmasterData = last.before
           /\ returned.s = TitleBlock(last.before)
                           \o KindBlock(last.before, "base") \o KindBlock(last.before, "meta")
                           \o KindBlock(last.before, "link") \o KindBlock(last.before, "style")
                           \o KindBlock(last.before, "script")
                           \o KindBlock(last.before, "noscript")

\* C12 witness: the interleaving merge by 1, merge by 2, merge by 2, render
\* by 1: request 1 declared title T and one meta entry, and its render
\* output has the title U and the link that only request 2 declared.
C12_Witness ==
    /\ last.op = "render" /\ last.inst = 1
    /\ Declares(1, "meta", Get(serverHeadmasterData, "meta"))
    /\ ~Declares(2, "meta", Get(serverHeadmasterData, "meta"))
    /\ ~Declares(1, "title", Get(serverHeadmasterData, "title"))
    /\ ~Declares(1, "link", Get(serverHeadmasterData, "link"))
    /\ returned.s = "<title>U</title><meta name=\"d\" content=\"c\" />"
                    \o "<link rel=\"d\" href=\"c\" />"


\* the attribute sets a tag-kind value asks to apply: the entries of an
\* array, the one set of an object, none otherwise
EntriesOf(v) ==
    CASE v.t = "arr" -> v.items
      [] v.t = "obj" -> <<v.props>>
      [] OTHER -> <<>>

\* how many mutations of group m the log holds
CountOf(log, m) == Cardinality({j \in 1..Len(log) : log[j] = m})

\* C13: after an apply, every tag-kind field whose value is another
\* reference than in the previous descriptor was reapplied, identical
\* contents or not: one element recorded per entry, each attached to the
\* head and marker-tagged, the last one carrying the last entry's
\* attributes; and every pair of an attribute map that is another reference
\* was set again on the root (body).
C13_FreshReferenceReapplies ==
    last.op = "apply" =>
        LET i == last.inst
            d == last.arg
            p == last.before
        IN /\ \A k \in TagKinds :
                  Get(d, k) # Get(p, k) =>
                      LET entries == EntriesOf(Get(d, k))
                          rec == SelectSeq(elements[i], LAMBDA e : nodes[e].tag = k)
                      IN /\ Len(rec) = Len(entries)
                         /\ CountOf(last.muts, k) = Len(entries)
                         /\ \A e \in Range(rec) : e \in Range(head) /\ IsManaged(nodes, e)
                         /\ entries # <<>> =>
                                Carries(nodes[rec[Len(rec)]].attrs, entries[Len(entries)])
           /\ Get(d, "htmlAttributes") # Get(p, "htmlAttributes") =>
                  /\ CountOf(last.muts, "htmlAttributes") = Len(MapOf(d, "htmlAttributes"))
                  /\ MergedInto(htmlAttrs, htmlAttrs, MapOf(d, "htmlAttributes"))
           /\ Get(d, "bodyAttributes") # Get(p, "bodyAttributes") =>
                  /\ CountOf(last.muts, "bodyAttributes") = Len(MapOf(d, "bodyAttributes"))
                  /\ MergedInto(bodyAttrs, bodyAttrs, MapOf(d, "bodyAttributes"))

\* C13 witness: a link array of two entries was followed by another
\* reference with the same entries, and was applied again.
C13_Witness ==
    /\ last.op = "apply"
    /\ IsArray(Get(last.before, "link")) /\ IsArray(Get(last.arg, "link"))
    /\ Get(last.arg, "link") # Get(last.before, "link")
    /\ Get(last.arg, "link").items = Get(last.before, "link").items
    /\ Len(Get(last.arg, "link").items) >= 2
    /\ Len(elements[1]) = Len(Get(last.arg, "link").items)
    /\ last.muts = [j \in 1..Len(elements[1]) |-> "link"]

\* C13 witness for attribute maps: {lang: en} was followed by another
\* reference with the same pair, which was set again.
C13_MapWitness ==
    /\ last.op = "apply"
    /\ IsObject(Get(last.before, "htmlAttributes"))
    /\ Get(last.arg, "htmlAttributes") # Get(last.before, "htmlAttributes")
    /\ MapOf(last.arg, "htmlAttributes") = MapOf(last.before, "htmlAttributes")
    /\ CountOf(last.muts, "htmlAttributes") = 1


\* the string an attribute value is written as
Written(v) ==
    CASE v.t = "bool" -> (IF v = Bool(TRUE) THEN "true" ELSE "false")
      [] v.t = "undef" -> "undefined"
      [] OTHER -> v.s

\* C14: in the step of one entry E of tag kind k, the element is the first
\* marker-tagged element of that kind in the head if there is one and a new
\* one otherwise; after the step it is the last child of the head and the
\* last recorded element, it carries the marker, every key of E is absent
\* if E gives it as undefined and holds the string of its value otherwise
\* ("true"/"false" for booleans), and every attribute the element had
\* under a key E does not name is as it was.
C14_AttributeSync ==
    [][last'.op = "entry" =>
         LET k == last'.arg[1][1]
             E == last'.arg[1][2].props
             found == QuerySelector(head, nodes, k)
             old == IF found # 0 THEN nodes[found].attrs ELSE <<>>
             els == elements'[last'.inst]
             e == els[Len(els)]
             new == nodes'[e].attrs
         IN /\ found # 0 => e = found
            /\ found = 0 => e \notin DOMAIN nodes
            /\ head'[Len(head')] = e
            /\ nodes'[e].tag = k
            /\ Has(new, Marker)
            /\ \A j \in 1..Len(E) :
                   IF E[j][2] = Undefined
                   THEN ~Has(new, E[j][1])
                   ELSE Has(new, E[j][1]) /\ AttrValue(new, E[j][1]) = Written(E[j][2])
            /\ \A a \in Keys(old) \ Keys(E) :
                   Has(new, a) /\ AttrValue(new, a) = AttrValue(old, a)]_vars

\* C14 witness: the entry {content: undefined, defer: true} was synced onto
\* the element that {name: b, content: c} had been written to: content is
\* gone, defer is "true", name is still b.
C14_Witness ==
    /\ last.op = "entry"
    /\ last.arg[1][2].props = <<<<"content", Undefined>>, <<"defer", Bool(TRUE)>>>>
    /\ LET e == elements[1][Len(elements[1])]
       IN nodes[e].attrs = <<<<Marker, "">>, <<"name", "b">>, <<"defer", "true">>>>


\* C15: a merge step gives every field of its descriptor the descriptor's
\* value in the aggregate and leaves every other field of the aggregate as
\* it was; no step removes a field from the aggregate.
C15_MergeAdditiveShallow ==
    [][/\ Keys(serverHeadmasterData) \subseteq Keys(serverHeadmasterData')
       /\ last'.op = "merge" =>
              LET d == last'.arg
              IN /\ Keys(serverHeadmasterData') = Keys(serverHeadmasterData) \cup Keys(d)
                 /\ \A k \in Keys(d) : Get(serverHeadmasterData', k) = Get(d, k)
                 /\ \A k \in Keys(serverHeadmasterData) \ Keys(d) :
                        Get(serverHeadmasterData', k) = Get(serverHeadmasterData, k)]_vars

\* C15 witness: a descriptor that declares only link was merged into an
\* aggregate holding a title, a meta array and a base: all four are there.
C15_Witness ==
    /\ last.op = "merge"
    /\ Keys(last.arg) = {"link"}
    /\ {"title", "meta", "base"} \subseteq Keys(last.before)
    /\ ~Has(last.before, "link")
    /\ \A k \in {"title", "meta", "base"} :
           Get(serverHeadmasterData, k) = Get(last.before, k)
    /\ Get(serverHeadmasterData, "link") = Get(last.arg, "link")


\* C16: whenever the instance's last apply has not been torn down, every
\* tag kind its latest descriptor declares with at least one entry has a
\* marker-tagged element of that tag name attached to the head.
C16_HeadReflectsLatest ==
    \A k \in TagKinds :
        (/\ cycle[1] = "applied"
         /\ last.op = "apply"
         /\ EntriesOf(Get(prevHeadmasterDataRef[1], k)) # <<>>)
        => ManagedOfTag(head, nodes, k) # <<>>


\* the elements instance j recorded in its last apply and has not torn down
Owned(j) == IF cycle[j] = "applied" THEN Range(elements[j]) ELSE {}

\* C17: with two instances on one document, a teardown step of one
\* instance detaches no element the other instance owns (recorded in its
\* last apply, not yet torn down), and an apply step of one instance leaves
\* the attributes of every element the other instance owns as they were.
C17_InstancesIsolated ==
    [][\A i, j \in Instances :
           (i # j /\ last'.inst = i) =>
               /\ last'.op = "teardown" =>
                      \A e \in Owned(j) : e \in Range(head) => e \in Range(head')
               /\ last'.op = "apply" =>
                      \A e \in Owned(j) : nodes'[e].attrs = nodes[e].attrs]_vars

C20_TeardownIdempotent ==
    [][/\ last'.op \in {"teardown", "teardown-again"} => returned'.status # "error"
       /\ last'.op = "teardown-again" =>
              /\ HeadView(head', nodes') = HeadView(head, nodes)
              /\ nodes' = nodes
              /\ <<title, htmlAttrs, bodyAttrs>>' = <<title, htmlAttrs, bodyAttrs>>
              /\ instVars' = instVars]_vars

\* C20 witness: the cleanup of instance 2 was called a second time; its
\* array holds the same element twice, and that element was also recorded
\* and torn down by instance 1.
C20_Witness ==
    /\ last.op = "teardown-again" /\ last.inst = 2
    /\ Len(elements[2]) >= 2
    /\ Cardinality(Range(elements[2])) = 1
    /\ cycle[1] = "torn"
    /\ Range(elements[2]) \subseteq Range(elements[1])
    /\ Range(elements[2]) \cap Range(head) = {}
    /\ returned = NoValue

\* C19: a teardown step leaves the document title, the attributes of the
\* root element and of the body element, and the instance's remembered
\* previous descriptor as they were; it changes recorded head elements only.
C19_TeardownFrame ==
    [][last'.op = "teardown" =>
           /\ title' = title
           /\ htmlAttrs' = htmlAttrs
           /\ bodyAttrs' = bodyAttrs
           /\ prevHeadmasterDataRef' = prevHeadmasterDataRef
           /\ \A e \in Range(head) \ Range(elements[last'.inst]) :
                  e \in Range(head') /\ nodes'[e] = nodes[e]]_vars

\* C19 witness: a teardown has just run and has removed an element; the
\* title and the root and body attributes that applies set are still in
\* place, and the previous descriptor is still remembered.
C19_Witness ==
    /\ last.op = "teardown"
    /\ title = "T"
    /\ htmlAttrs # <<>>
    /\ bodyAttrs # <<>>
    /\ prevHeadmasterDataRef[last.inst] # <<>>
    /\ elements[last.inst] # <<>>
    /\ Range(elements[last.inst]) \cap Range(head) = {}

==========================================================================
